---- MODULE Spec2Model ----
(***************************************************************************)
(* A model of AYNEC's DataGen.py: the DatasetsGenerator preprocessing      *)
(* (read: group_edges, pruning, find_inverses, remove_rels), the rotating  *)
(* train/test split (split_graph) and the negatives generation             *)
(* (generate_negatives, generate_negatives_random), together with main().  *)
(*                                                                         *)
(* Python sets and dicts are iterated in an order the program does not     *)
(* control: every such order is a nondeterministic choice, fixed when the  *)
(* collection is built.  Fractions are exact rationals <<num, den>>; the   *)
(* values used are dyadic, so the float arithmetic of the source is exact  *)
(* on them.  The degree counters of the entities are not modelled: no      *)
(* algorithm of the generator reads them.                                  *)
(***************************************************************************)
EXTENDS Integers, Sequences, FiniteSets, TLC

\* ------------------------------------------------------------------ bounds
Ents == {"a", "b"}
Rels == {"r1", "r2", "r3"}
MaxEdges == 3

\* A line of the input file: <<source, relation, target>>.
Lines == Ents \X Rels \X Ents
LineSets == {L \in SUBSET Lines : Cardinality(L) <= MaxEdges}

\* The graphs split_graph is run on: up to MaxSplitEdges edges of two relations,
\* and up to MaxSplits splits.
SplitRels == {"r1", "r2"}
MaxSplitEdges == 4
MaxSplits == 3
SplitLineSets ==
    {L \in SUBSET (Ents \X SplitRels \X Ents) : Cardinality(L) <= MaxSplitEdges}

MinNumRelValues == {0, 1, 2}
ReachValues == {<<0, 1>>, <<1, 2>>, <<3, 4>>, <<1, 1>>}

VARIABLES
    pc,              \* position in the pipeline
    entities,        \* self.entities (its keys)
    relations,       \* self.relations, as the sequence its iteration yields
    edges,           \* self.edges: set of <<relation, source, target>>
    grouped_edges,   \* self.grouped_edges: relation -> set of <<source, target>>
    grouped_keys,    \* the insertion order of the keys of self.grouped_edges
    domains,         \* self.domains
    ranges,          \* self.ranges
    inverses,        \* self.inverses
    inverse_tuples,  \* self.inverse_tuples
    inverses_dict,   \* self.inverses_dict
    entity_edges,    \* self.entity_edges
    accepted_rels,   \* read's local accepted_rels
    min_num_rel,     \* read's argument
    reach_fraction,  \* read's argument
    remove_inverses, \* read's argument
    number_splits,   \* self.number_splits
    config,          \* the configuration constants of the script
    matrix_movements, \* compute_PPR: the transition table, by entities
    ranks,           \* self.ranks, by entities (Unset until compute_PPR)
    graphs,          \* self.graphs: split -> train/test -> positive/negative
    fraction_test,   \* split_graph's argument
    fraction_test_relations,  \* split_graph's argument
    edge_list,       \* split_graph's local edges, the list built from each relation's set
    ignored_rels_positives,  \* self.ignored_rels_positives
    gn,              \* the frame of generate_negatives: its arguments and locals
    gnr              \* the frame of generate_negatives_random

readVars == <<entities, relations, edges, grouped_edges, grouped_keys, domains,
              ranges, inverses, inverse_tuples, inverses_dict, entity_edges,
              accepted_rels, min_num_rel, reach_fraction, remove_inverses>>

splitVars == <<graphs, fraction_test, fraction_test_relations, edge_list>>

negVars == <<ignored_rels_positives, gn, gnr>>
pprVars == <<matrix_movements, ranks>>

vars == <<pc, readVars, number_splits, config, pprVars, splitVars, negVars>>

\* ------------------------------------------------------------- helpers
Range(s) == {s[i] : i \in DOMAIN s}

\* The orders in which a Python set or dict may be iterated.
Perms(S) ==
    {s \in [1..Cardinality(S) -> S] : \A i, j \in DOMAIN s : i # j => s[i] # s[j]}

\* len(x) of a Python collection held as a set.
len(S) == Cardinality(S)

\* ------------------------------------------------- SimpleTriplesReader.read
\* Each kept line <<source, relation, target>> becomes the edge
\* <<relation, source, target>>.
ReaderEdges(kept) == {<<l[2], l[1], l[3]>> : l \in kept}
ReaderRelations(kept) == {l[2] : l \in kept}
ReaderEntities(kept) == {l[1] : l \in kept} \cup {l[3] : l \in kept}

\* ------------------------------------------------------------- group_edges
GroupEdges(E) ==
    [r \in {e[1] : e \in E} |-> {<<e[2], e[3]>> : e \in {x \in E : x[1] = r}}]
GroupDomains(E) ==
    [r \in {e[1] : e \in E} |-> {e[2] : e \in {x \in E : x[1] = r}}]
GroupRanges(E) ==
    [r \in {e[1] : e \in E} |-> {e[3] : e \in {x \in E : x[1] = r}}]

\* ------------------------------------------------------------- remove_rels
\* Mutant: the edges of the removed relations are left in self.edges.
RemoveRelsEdges_KeepAll(E, removed) == E

\* self.edges filtered; each removed relation popped from grouped_edges and
\* removed from self.relations (the remaining ones keep their order).
RemoveRelsEdges(E, removed) == {e \in E : e[1] \notin removed}
RemoveRelsGrouped(g, removed) == [r \in (DOMAIN g) \ removed |-> g[r]]
RemoveRelsSeq(s, removed) == SelectSeq(s, LAMBDA r : r \notin removed)

\* ------------------------------------------------------------ read: pruning
\* candidate_rels: the relations with at least min_num_rel edges, in the
\* dict's order ...
CandidateRels(keys, g, mnr) == SelectSeq(keys, LAMBDA r : len(g[r]) >= mnr)

\* ... sorted by frequency, descending; list.sort is stable.
RECURSIVE SortDesc(_, _, _)
SortDesc(cands, g, c) ==
    IF c < 0 THEN <<>>
    ELSE SelectSeq(cands, LAMBDA r : len(g[r]) = c) \o SortDesc(cands, g, c - 1)

SortedCandidates(keys, g, mnr, total) == SortDesc(CandidateRels(keys, g, mnr), g, total)

\* Mutant: the threshold must be exceeded, not reached.
Reached_Strict(acc, total, rf) == acc * rf[2] > rf[1] * total

\* accumulated_fraction >= reach_fraction, with accumulated_fraction = acc / total.
Reached(acc, total, rf) == acc * rf[2] >= rf[1] * total

\* The loop of read: a relation is accepted, then the accumulated fraction is
\* tested.  k is the number of relations accepted so far.
RECURSIVE AcceptLoop(_, _, _, _, _, _)
AcceptLoop(cands, g, total, rf, k, acc) ==
    IF k = Len(cands) THEN k
    ELSE LET acc2 == acc + len(g[cands[k + 1]])
         IN  IF Reached(acc2, total, rf) THEN k + 1
             ELSE AcceptLoop(cands, g, total, rf, k + 1, acc2)

AcceptedRels(keys, g, mnr, rf, total) ==
    LET cands == SortedCandidates(keys, g, mnr, total)
    IN  SubSeq(cands, 1, AcceptLoop(cands, g, total, rf, 0, 0))

\* ------------------------------------------------------------ find_inverses
\* Mutant: the mirror is tested in one direction only.
IsInverse_OneWay(edges1, edges2) == \A e \in edges1 : <<e[2], e[1]>> \in edges2

\* is_inverse of a combination: every edge of each has its mirror in the other.
IsInverse(edges1, edges2) ==
    /\ \A e \in edges1 : <<e[2], e[1]>> \in edges2
    /\ \A e \in edges2 : <<e[2], e[1]>> \in edges1

\* combinations(self.relations, 2), in its order.
RECURSIVE Combinations(_, _, _)
Combinations(rels, i, j) ==
    IF i >= Len(rels) THEN <<>>
    ELSE IF j > Len(rels) THEN Combinations(rels, i + 1, i + 2)
    ELSE <<<<rels[i], rels[j]>>>> \o Combinations(rels, i, j + 1)

FoundTuples(rels, g) ==
    SelectSeq(Combinations(rels, 1, 2), LAMBDA c : IsInverse(g[c[1]], g[c[2]]))

\* The truth value Python gives a tuple used as a condition.
Truthy(t) == Len(t) > 0

\* The condition of line 412: (r1, r2) or (r2, r1) in self.inverse_tuples.
PartnerCondition(r1, r2, tuples) == Truthy(<<r1, r2>>) \/ <<r2, r1>> \in Range(tuples)

InversesDict(rels, tuples) ==
    [r1 \in Range(rels) |-> {r2 \in Range(rels) : PartnerCondition(r1, r2, tuples)}]

\* ---------------------------------------------------------------- read, whole
\* entity_edges: the outgoing edges of each entity that has some.
EntityEdges(E) == [s \in {e[2] : e \in E} |-> {e \in E : e[2] = s}]

\* The state read() leaves with its default arguments (min_num_rel = 0,
\* reach_fraction = 1, remove_inverses = False) when the reader keeps `kept`.
ReadDone(kept, relOrder, keyOrder) ==
    /\ entities = ReaderEntities(kept)
    /\ relations = relOrder
    /\ edges = ReaderEdges(kept)
    /\ grouped_edges = GroupEdges(ReaderEdges(kept))
    /\ grouped_keys = keyOrder
    /\ domains = GroupDomains(ReaderEdges(kept))
    /\ ranges = GroupRanges(ReaderEdges(kept))
    /\ accepted_rels = AcceptedRels(keyOrder, GroupEdges(ReaderEdges(kept)), 0, <<1, 1>>,
                                    len(ReaderEdges(kept)))
    /\ inverse_tuples = FoundTuples(relOrder, GroupEdges(ReaderEdges(kept)))
    /\ inverses = {c[2] : c \in Range(FoundTuples(relOrder, GroupEdges(ReaderEdges(kept))))}
    /\ inverses_dict = InversesDict(relOrder, FoundTuples(relOrder, GroupEdges(ReaderEdges(kept))))
    /\ entity_edges = EntityEdges(ReaderEdges(kept))
    /\ min_num_rel = 0
    /\ reach_fraction = <<1, 1>>
    /\ remove_inverses = FALSE

\* -------------------------------------------------------------- split_graph
FractionValues == {<<0, 1>>, <<1, 4>>, <<1, 2>>, <<3, 4>>, <<1, 1>>}
FractionDicts == UNION {[D -> {<<1, 2>>, <<1, 1>>}] : D \in (SUBSET SplitRels) \ {{}}}

\* floor(n * f) for the fraction f = <<numerator, denominator>>.
FloorMul(n, f) == (n * f[1]) \div f[2]

\* range(a, b)
PyRange(a, b) == a..(b - 1)

\* Line 468: offset = floor(len(edges) / self.number_splits * i)
Offset(N, ns, i) == (N * i) \div ns

\* Mutant: the number of test edges is rounded up.
NumTest_Ceil(N, f) == -((-(N * f[1])) \div f[2])

\* Line 470: num_test = floor(len(edges) * fraction_test)
NumTest(N, f) == FloorMul(N, f)

\* Line 471: ids_test
IdsTest(N, offset, num_test) == {(offset + x) % N : x \in PyRange(0, num_test)}

\* Mutant: the first train index is skipped.
IdsTrain_SkipFirst(N, offset, num_test) ==
    {(offset + x) % N : x \in PyRange(num_test + 1, N)}

\* Line 472: ids_train
IdsTrain(N, offset, num_test) == {(offset + x) % N : x \in PyRange(num_test, N)}

\* Lines 457-458 and 469: the test fraction of a relation.
FractionOf(rel, rels, ft, frel) ==
    LET d == IF DOMAIN frel = {} THEN [r \in Range(rels) |-> ft] ELSE frel
    IN  IF rel \in DOMAIN d THEN d[rel] ELSE <<0, 1>>

\* Lines 473-474: the edges at the given (0-based) ids.
EdgesAt(elist, ids) == {elist[id + 1] : id \in ids}

\* Lines 466-476: the test and the train bucket of split i.
TestPositive(rels, elists, ns, i, ft, frel) ==
    UNION {EdgesAt(elists[r], IdsTest(Len(elists[r]), Offset(Len(elists[r]), ns, i),
                                      NumTest(Len(elists[r]), FractionOf(r, rels, ft, frel))))
           : r \in Range(rels)}
TrainPositive(rels, elists, ns, i, ft, frel) ==
    UNION {EdgesAt(elists[r], IdsTrain(Len(elists[r]), Offset(Len(elists[r]), ns, i),
                                       NumTest(Len(elists[r]), FractionOf(r, rels, ft, frel))))
           : r \in Range(rels)}

\* Lines 460-476: self.graphs after split_graph.
SplitGraphs(rels, elists, ns, ft, frel) ==
    [i \in 0..(ns - 1) |->
        [train |-> [positive |-> TrainPositive(rels, elists, ns, i, ft, frel)],
         test |-> [positive |-> TestPositive(rels, elists, ns, i, ft, frel)]]]

\* Line 467: the lists the sets grouped_edges[rel] may be iterated into.
EdgeLists(rels, g) ==
    LET of(r) == Perms({<<r, st[1], st[2]>> : st \in g[r]})
    IN  {el \in [Range(rels) -> UNION {of(r) : r \in Range(rels)}] :
            \A r \in Range(rels) : el[r] \in of(r)}

\* ------------------------------------------------------- generate_negatives
None == "None"

\* An attribute or a local that has not been assigned yet.
Unset == [unset |-> TRUE]

RandomStrategies == {"change_source", "change_target", "change_both",
                     "change_source_random", "change_target_random",
                     "change_both_random"}

\* Lines 654-665: the flags each strategy passes to generate_negatives_random.
KeepDomRan(strategy) == strategy \in {"change_source", "change_target", "change_both"}
ChangeSource(strategy) ==
    strategy \in {"change_source", "change_both", "change_source_random", "change_both_random"}
ChangeTarget(strategy) ==
    strategy \in {"change_target", "change_both", "change_target_random", "change_both_random"}

\* Mutant: random() <= factor_copy, and random() may return 0.
RandomLess_OrEqual(fc) ==
    IF fc[1] >= fc[2] THEN {TRUE} ELSE IF fc[1] < 0 THEN {FALSE} ELSE BOOLEAN

\* Line 651: the values random() < factor_copy may take, random() being any
\* number of [0, 1).
RandomLess(fc) ==
    IF fc[1] >= fc[2] THEN {TRUE} ELSE IF fc[1] <= 0 THEN {FALSE} ELSE BOOLEAN

\* Lines 649-653: the values num_negatives may have when the loop ends.
RECURSIVE NumNegatives(_, _)
NumNegatives(fc, n) ==
    (IF FALSE \in RandomLess(fc) THEN {n} ELSE {})
    \cup (IF TRUE \in RandomLess(fc)
          THEN NumNegatives(<<fc[1] - fc[2], fc[2]>>, n + 1)
          ELSE {})

\* A list holding the elements of a set (the order plays no part: the lists
\* built this way are only sampled and measured).
RECURSIVE ListOf(_)
ListOf(S) ==
    IF S = {} THEN <<>>
    ELSE LET x == CHOOSE y \in S : TRUE IN <<x>> \o ListOf(S \ {x})

\* [edge[k] for edge in S], k counted from 0 as in the source.
Column(S, k) == LET l == ListOf(S) IN [i \in DOMAIN l |-> l[i][k + 1]]

\* Lines 567-576: the initial candidates.
CandidatesSource(keep_dom_ran, rel) ==
    IF keep_dom_ran THEN Column(grouped_edges[rel], 0) ELSE Column(edges, 0)
CandidatesTarget(keep_dom_ran, rel) ==
    IF keep_dom_ran THEN Column(grouped_edges[rel], 1) ELSE Column(edges, 1)

\* Lines 595-598 and 613-616: the candidates after the widening.
WidenedSource(keep_dom_ran, rel) ==
    IF keep_dom_ran THEN ListOf(domains[rel]) ELSE ListOf(entities)
WidenedTarget(keep_dom_ran, rel) ==
    IF keep_dom_ran THEN ListOf(ranges[rel]) ELSE ListOf(entities)

MaxAttempts == 20
WidenAfter == 10

\* Lines 592 and 611: the condition of the search loop.
WhileCond(found, candidates, attempts) ==
    ~found /\ Len(candidates) > 1 /\ attempts <= MaxAttempts

\* Mutant: every candidate drawn is taken as found.
Found_Always(candidate, original) == TRUE

\* Lines 601 and 619: whether the candidate drawn differs from the original.
Found(candidate, original) == candidate # original

\* Lines 594 and 612: the condition of the widening.
Widen(attempts) == attempts > WidenAfter

\* Mutant: the ignored set is not consulted.
Ignored_Never(rel, ignored) == FALSE

\* Line 648: whether the relation of a positive is being ignored.
Ignored(rel, ignored) == rel \in ignored

\* The frames when the functions are not running.
GnIdle ==
    [split |-> 0, train_test |-> "test", negatives_factor |-> <<0, 1>>,
     strategy |-> "", clean_before |-> TRUE, reject_rel_after_failure |-> FALSE,
     pending |-> {}, negatives |-> <<>>, positive |-> <<>>, num_negatives |-> 0]
GnrIdle ==
    [number_negatives |-> 0, keep_dom_ran |-> TRUE, change_source |-> FALSE,
     change_target |-> TRUE,
     candidates_source |-> <<>>, candidates_target |-> <<>>, negatives |-> <<>>,
     todo |-> 0, source |-> None, target |-> None, attempts |-> 0, found |-> FALSE]

\* A bucket of self.graphs with its "negative" entry set (an empty set() and
\* an empty list are both the empty sequence).
WithNegative(bucket, negatives) == [positive |-> bucket.positive, negative |-> negatives]

\* ------------------------------------------------------------ compute_PPR
\* Numbers are exact fractions <<numerator, denominator>> in lowest terms,
\* the denominator positive.  The matrices are indexed by the entities
\* themselves: etoint and inttoe (lines 430-431) only rename them.
RECURSIVE GCD(_, _)
GCD(a, b) == IF b = 0 THEN a ELSE GCD(b, a % b)
Abs(n) == IF n < 0 THEN -n ELSE n
Norm(q) ==
    IF q[1] = 0 THEN <<0, 1>>
    ELSE LET g == GCD(Abs(q[1]), q[2]) IN <<q[1] \div g, q[2] \div g>>
Add(p, q) == Norm(<<p[1] * q[2] + q[1] * p[2], p[2] * q[2]>>)
Mul(p, q) == Norm(<<p[1] * q[1], p[2] * q[2]>>)
Positive(q) == q[1] > 0

RECURSIVE Sum(_, _)
Sum(f, S) ==
    IF S = {} THEN <<0, 1>>
    ELSE LET x == CHOOSE y \in S : TRUE IN Add(f[x], Sum(f, S \ {x}))

\* Line 284: self.entity_edges.get(entity, list())
OutEdges(entity) ==
    IF entity \in DOMAIN entity_edges THEN entity_edges[entity] ELSE {}

\* Lines 285-288: entity_count[target]
EntityCount(entity, target) == len({e \in OutEdges(entity) : e[3] = target})

\* Line 281: what an entry of np.empty may hold when nothing is assigned
\* to it: zero, or whatever the memory held.
Uninitialized == {<<0, 1>>, <<1, 1>>, <<-1, 1>>}

\* Lines 281-291: the tables matrix_movements may be when the loop ends.  Only
\* the entries of the observed edges are assigned.
MatrixMovements ==
    LET assigned == {p \in entities \X entities : EntityCount(p[1], p[2]) > 0}
        rest == (entities \X entities) \ assigned
    IN  {[s \in entities |-> [t \in entities |->
             IF <<s, t>> \in assigned
             THEN Norm(<<EntityCount(s, t), len(OutEdges(s))>>)
             ELSE g[<<s, t>>]]] : g \in [rest -> Uninitialized]}

\* Lines 295-296: np.identity
Identity == [s \in entities |-> [t \in entities |-> IF s = t THEN <<1, 1>> ELSE <<0, 1>>]]

\* np.matmul
MatMul(A, B) ==
    [s \in entities |-> [t \in entities |->
        Sum([k \in entities |-> Mul(A[s][k], B[k][t])], entities)]]

\* Lines 297-298: ranks after the given number of steps.
RECURSIVE Ranks(_, _, _, _)
Ranks(r, m, alpha, steps) ==
    IF steps = 0 THEN r
    ELSE LET rm == MatMul(r, m)
             next == [s \in entities |-> [t \in entities |->
                         Add(Mul(<<alpha[2] - alpha[1], alpha[2]>>, rm[s][t]),
                             Mul(alpha, Identity[s][t]))]]
         IN  Ranks(next, m, alpha, steps - 1)

\* Lines 536-539: the candidates of generate_negatives_PPR for an endpoint.
PPRCandidates(entity, allowed) ==
    {e \in entities : Positive(ranks[entity][e]) /\ e \in allowed}

\* ------------------------------------------------------------------- main
\* Lines 44-68: the configuration as the script sets it.
DefaultConfig ==
    [min_num_rel |-> 2, reach_fraction |-> <<19, 20>>, remove_inverses |-> TRUE,
     testing_fraction |-> <<1, 5>>, number_negatives |-> <<1, 1>>,
     negatives_strategy |-> "change_target", generate_negatives_training |-> TRUE]

\* ---------------------------------------------------------------- __init__
Constructed ==
    /\ pc = "init"
    /\ matrix_movements = Unset
    /\ ranks = Unset
    /\ entities = {}
    /\ relations = <<>>
    /\ edges = {}
    /\ grouped_edges = <<>>
    /\ grouped_keys = <<>>
    /\ domains = <<>>
    /\ ranges = <<>>
    /\ inverses = {}
    /\ inverse_tuples = <<>>
    /\ inverses_dict = <<>>
    /\ entity_edges = <<>>
    /\ accepted_rels = <<>>
    /\ min_num_rel = 0
    /\ reach_fraction = <<1, 1>>
    /\ remove_inverses = FALSE
    /\ number_splits = 1
    /\ graphs = <<>>
    /\ fraction_test = <<1, 10>>
    /\ fraction_test_relations = <<>>
    /\ edge_list = <<>>
    /\ ignored_rels_positives = {}
    /\ gn = GnIdle
    /\ gnr = GnrIdle

Init == Constructed /\ config = DefaultConfig

\* --------------------------------------------------------------------- read
\* Lines 227-228: reader.read() and group_edges().  kept: the lines of the file
\* the reader keeps, one of lineSets; relOrder, keyOrder: the orders in which self.relations
\* and the keys of self.grouped_edges will be iterated.
ReadGraph(lineSets) ==
    /\ pc = "init"
    /\ \E kept \in lineSets :
          \E relOrder, keyOrder \in Perms(ReaderRelations(kept)) :
             /\ entities' = ReaderEntities(kept)
             /\ relations' = relOrder
             /\ edges' = ReaderEdges(kept)
             /\ grouped_edges' = GroupEdges(ReaderEdges(kept))
             /\ grouped_keys' = keyOrder
             /\ domains' = GroupDomains(ReaderEdges(kept))
             /\ ranges' = GroupRanges(ReaderEdges(kept))
    /\ pc' = "grouped"
    /\ UNCHANGED <<inverses, inverse_tuples, inverses_dict, entity_edges,
                   accepted_rels, min_num_rel, reach_fraction, remove_inverses>>
    /\ UNCHANGED <<number_splits, config, pprVars, splitVars, negVars>>

\* Lines 229-252: the pruning and remove_rels(removed_rels).
Prune(mnr, rf) ==
    /\ pc = "grouped"
    /\ LET accepted == AcceptedRels(grouped_keys, grouped_edges, mnr, rf, len(edges))
           removed == Range(relations) \ Range(accepted)
       IN  /\ accepted_rels' = accepted
           /\ edges' = RemoveRelsEdges(edges, removed)
           /\ grouped_edges' = RemoveRelsGrouped(grouped_edges, removed)
           /\ grouped_keys' = RemoveRelsSeq(grouped_keys, removed)
           /\ relations' = RemoveRelsSeq(relations, removed)
    /\ min_num_rel' = mnr
    /\ reach_fraction' = rf
    /\ pc' = "pruned"
    /\ UNCHANGED <<entities, domains, ranges, inverses, inverse_tuples,
                   inverses_dict, entity_edges, remove_inverses>>
    /\ UNCHANGED <<number_splits, config, pprVars, splitVars, negVars>>

\* Line 256: find_inverses().
FindInverses ==
    /\ pc = "pruned"
    /\ LET found == FoundTuples(relations, grouped_edges)
       IN  /\ inverse_tuples' = inverse_tuples \o found
           /\ inverses' = inverses \cup {c[2] : c \in Range(found)}
           /\ inverses_dict' = InversesDict(relations, inverse_tuples \o found)
    /\ pc' = "found"
    /\ UNCHANGED <<entities, relations, edges, grouped_edges, grouped_keys,
                   domains, ranges, entity_edges, accepted_rels, min_num_rel,
                   reach_fraction, remove_inverses>>
    /\ UNCHANGED <<number_splits, config, pprVars, splitVars, negVars>>

\* Lines 257-259: if remove_inverses, remove_rels(self.inverses).
RemoveInverses(flag) ==
    /\ pc = "found"
    /\ remove_inverses' = flag
    /\ IF flag
       THEN /\ edges' = RemoveRelsEdges(edges, inverses)
            /\ grouped_edges' = RemoveRelsGrouped(grouped_edges, inverses)
            /\ grouped_keys' = RemoveRelsSeq(grouped_keys, inverses)
            /\ relations' = RemoveRelsSeq(relations, inverses)
       ELSE UNCHANGED <<edges, grouped_edges, grouped_keys, relations>>
    /\ pc' = "inverses_done"
    /\ UNCHANGED <<entities, domains, ranges, inverses, inverse_tuples,
                   inverses_dict, entity_edges, accepted_rels, min_num_rel,
                   reach_fraction>>
    /\ UNCHANGED <<number_splits, config, pprVars, splitVars, negVars>>

\* Lines 261-265: the outgoing edges of each entity.
StoreEntityEdges ==
    /\ pc = "inverses_done"
    /\ entity_edges' = EntityEdges(edges)
    /\ pc' = "read_done"
    /\ UNCHANGED <<entities, relations, edges, grouped_edges, grouped_keys,
                   domains, ranges, inverses, inverse_tuples, inverses_dict,
                   accepted_rels, min_num_rel, reach_fraction, remove_inverses>>
    /\ UNCHANGED <<number_splits, config, pprVars, splitVars, negVars>>

\* split_graph(fraction_test, fraction_test_relations)
SplitGraph(ft, frel) ==
    /\ pc = "read_done"
    /\ \E el \in EdgeLists(relations, grouped_edges) :
          /\ edge_list' = el
          /\ graphs' = SplitGraphs(relations, el, number_splits, ft, frel)
    /\ fraction_test' = ft
    /\ fraction_test_relations' = frel
    /\ pc' = "split_done"
    /\ UNCHANGED <<readVars, number_splits, config, pprVars, negVars>>

\* Lines 641-645: generate_negatives is called.
GenerateNegatives(split, train_test, negatives_factor, strategy, clean_before, reject) ==
    /\ pc \in {"split_done", "gn_done"}
    /\ split \in DOMAIN graphs
    /\ gn' = [GnIdle EXCEPT !.split = split, !.train_test = train_test,
                            !.negatives_factor = negatives_factor,
                            !.strategy = strategy, !.clean_before = clean_before,
                            !.reject_rel_after_failure = reject,
                            !.pending = graphs[split][train_test].positive]
    /\ graphs' = IF clean_before
                 THEN [graphs EXCEPT ![split][train_test] = WithNegative(@, <<>>)]
                 ELSE graphs
    /\ pc' = "gn_loop"
    /\ UNCHANGED <<readVars, number_splits, config, pprVars, fraction_test, fraction_test_relations,
                   edge_list, ignored_rels_positives, gnr>>

\* Lines 647-648: the next positive, of an ignored relation.
SkipPositive ==
    /\ pc = "gn_loop"
    /\ \E positive \in gn.pending :
          /\ Ignored(positive[1], ignored_rels_positives)
          /\ gn' = [gn EXCEPT !.pending = @ \ {positive}, !.positive = positive]
    /\ UNCHANGED <<pc, readVars, number_splits, config, pprVars, splitVars, ignored_rels_positives, gnr>>

\* Lines 647-665: the next positive; num_negatives is drawn and
\* generate_negatives_random is entered (lines 566-582).
NextPositive ==
    /\ pc = "gn_loop"
    /\ gn.strategy \in RandomStrategies
    /\ \E positive \in gn.pending :
          /\ ~Ignored(positive[1], ignored_rels_positives)
          /\ \E n \in NumNegatives(gn.negatives_factor, 0) :
                /\ gn' = [gn EXCEPT !.pending = @ \ {positive}, !.positive = positive,
                                    !.num_negatives = n]
                /\ gnr' = [GnrIdle EXCEPT
                             !.number_negatives = n,
                             !.keep_dom_ran = KeepDomRan(gn.strategy),
                             !.change_source = ChangeSource(gn.strategy),
                             !.change_target = ChangeTarget(gn.strategy),
                             !.candidates_source =
                                 IF ChangeSource(gn.strategy)
                                 THEN CandidatesSource(KeepDomRan(gn.strategy), positive[1])
                                 ELSE <<>>,
                             !.candidates_target =
                                 IF ChangeTarget(gn.strategy)
                                 THEN CandidatesTarget(KeepDomRan(gn.strategy), positive[1])
                                 ELSE <<>>,
                             !.todo = n]
    /\ pc' = "gnr_for"
    /\ UNCHANGED <<readVars, number_splits, config, pprVars, splitVars, ignored_rels_positives>>

\* Lines 654-668 with a strategy that no branch matches: new_negatives is
\* not bound when line 668 reads it, and the call ends in an UnboundLocalError.
UnknownStrategy ==
    /\ pc = "gn_loop"
    /\ gn.strategy \notin RandomStrategies \cup {"PPR"}
    /\ \E positive \in gn.pending :
          /\ ~Ignored(positive[1], ignored_rels_positives)
          /\ \E n \in NumNegatives(gn.negatives_factor, 0) :
                gn' = [gn EXCEPT !.pending = @ \ {positive}, !.positive = positive,
                                 !.num_negatives = n]
    /\ pc' = "error"
    /\ UNCHANGED <<readVars, number_splits, config, pprVars, splitVars, ignored_rels_positives, gnr>>

\* The state when the search for the target begins or is skipped and the
\* negative is appended (lines 608-625), given the source found.
AfterSource(frame) ==
    IF frame.change_target
    THEN [frame EXCEPT !.attempts = 0, !.found = FALSE]
    ELSE [frame EXCEPT
            !.target = gn.positive[3],
            !.negatives =
                IF ~(frame.change_source /\ frame.source = None)
                THEN Append(@, <<gn.positive[1], frame.source, gn.positive[3]>>)
                ELSE @]

\* Lines 584-590 and 605-606: an iteration of the for loop begins.
BeginNegative ==
    /\ pc = "gnr_for"
    /\ gnr.todo > 0
    /\ IF gnr.change_source
       THEN /\ gnr' = [gnr EXCEPT !.todo = @ - 1, !.source = None, !.target = None,
                                  !.attempts = 0, !.found = FALSE]
            /\ pc' = "gnr_source"
       ELSE /\ gnr' = AfterSource([gnr EXCEPT !.todo = @ - 1, !.source = gn.positive[2],
                                              !.target = None])
            /\ pc' = IF gnr.change_target THEN "gnr_target" ELSE "gnr_for"
    /\ UNCHANGED <<readVars, number_splits, config, pprVars, splitVars, ignored_rels_positives, gn>>

\* Lines 592-603: one iteration of the search for a source.
DrawSource ==
    /\ pc = "gnr_source"
    /\ WhileCond(gnr.found, gnr.candidates_source, gnr.attempts)
    /\ LET candidates == IF Widen(gnr.attempts)
                         THEN WidenedSource(gnr.keep_dom_ran, gn.positive[1])
                         ELSE gnr.candidates_source
       IN  \E i \in DOMAIN candidates :
              gnr' = [gnr EXCEPT !.candidates_source = candidates,
                                 !.attempts = @ + 1,
                                 !.found = Found(candidates[i], gn.positive[2]),
                                 !.source = IF Found(candidates[i], gn.positive[2])
                                            THEN candidates[i] ELSE None]
    /\ UNCHANGED <<pc, readVars, number_splits, config, pprVars, splitVars, ignored_rels_positives, gn>>

\* Lines 592 and 608-610, 622-625: the search for a source ends.
EndSource ==
    /\ pc = "gnr_source"
    /\ ~WhileCond(gnr.found, gnr.candidates_source, gnr.attempts)
    /\ gnr' = AfterSource(gnr)
    /\ pc' = IF gnr.change_target THEN "gnr_target" ELSE "gnr_for"
    /\ UNCHANGED <<readVars, number_splits, config, pprVars, splitVars, ignored_rels_positives, gn>>

\* Lines 611-621: one iteration of the search for a target.
DrawTarget ==
    /\ pc = "gnr_target"
    /\ WhileCond(gnr.found, gnr.candidates_target, gnr.attempts)
    /\ LET candidates == IF Widen(gnr.attempts)
                         THEN WidenedTarget(gnr.keep_dom_ran, gn.positive[1])
                         ELSE gnr.candidates_target
       IN  \E i \in DOMAIN candidates :
              gnr' = [gnr EXCEPT !.candidates_target = candidates,
                                 !.attempts = @ + 1,
                                 !.found = Found(candidates[i], gn.positive[3]),
                                 !.target = IF Found(candidates[i], gn.positive[3])
                                            THEN candidates[i] ELSE None]
    /\ UNCHANGED <<pc, readVars, number_splits, config, pprVars, splitVars, ignored_rels_positives, gn>>

\* Lines 611 and 624-625: the search for a target ends; the negative is
\* appended unless a required endpoint was not found.
EndTarget ==
    /\ pc = "gnr_target"
    /\ ~WhileCond(gnr.found, gnr.candidates_target, gnr.attempts)
    /\ gnr' = [gnr EXCEPT
                 !.negatives =
                     IF ~(gnr.change_source /\ gnr.source = None)
                        /\ ~(gnr.change_target /\ gnr.target = None)
                     THEN Append(@, <<gn.positive[1], gnr.source, gnr.target>>)
                     ELSE @]
    /\ pc' = "gnr_for"
    /\ UNCHANGED <<readVars, number_splits, config, pprVars, splitVars, ignored_rels_positives, gn>>

\* Lines 626 and 668-673: generate_negatives_random returns.
ReturnNegatives ==
    /\ pc = "gnr_for"
    /\ gnr.todo = 0
    /\ gn' = [gn EXCEPT !.negatives = IF Len(gnr.negatives) > 0
                                      THEN @ \o gnr.negatives ELSE @]
    /\ ignored_rels_positives' =
          IF Len(gnr.negatives) = 0 /\ gn.reject_rel_after_failure
          THEN ignored_rels_positives \cup {gn.positive[1]}
          ELSE ignored_rels_positives
    /\ gnr' = GnrIdle
    /\ pc' = "gn_loop"
    /\ UNCHANGED <<readVars, number_splits, config, pprVars, splitVars>>

\* Line 674: the loop over the positives is over.
FinishNegatives ==
    /\ pc = "gn_loop"
    /\ gn.pending = {}
    /\ graphs' = [graphs EXCEPT ![gn.split][gn.train_test] = WithNegative(@, gn.negatives)]
    /\ gn' = GnIdle
    /\ pc' = "gn_done"
    /\ UNCHANGED <<readVars, number_splits, config, pprVars, fraction_test, fraction_test_relations,
                   edge_list, ignored_rels_positives, gnr>>

\* compute_PPR(steps, alpha), lines 279-299.
ComputePPR(steps, alpha) ==
    /\ pc = "split_done"
    /\ ranks = Unset
    /\ \E m \in MatrixMovements :
          /\ matrix_movements' = m
          /\ ranks' = Ranks(Identity, m, alpha, steps)
    /\ UNCHANGED <<pc, readVars, number_splits, config, splitVars, negVars>>

\* Lines 647-653, 666-673 and 535-549: the next positive under the PPR
\* strategy.  self.ranks does not exist before compute_PPR (AttributeError at
\* line 536), and np.random.choice raises ValueError when no candidate has a
\* positive rank (the probabilities are empty); otherwise every candidate
\* has a positive probability and may be chosen for each negative.
PPRPositive ==
    /\ pc = "gn_loop"
    /\ gn.strategy = "PPR"
    /\ \E positive \in gn.pending :
          /\ ~Ignored(positive[1], ignored_rels_positives)
          /\ \E n \in NumNegatives(gn.negatives_factor, 0) :
                LET rel == positive[1]
                    frame == [gn EXCEPT !.pending = @ \ {positive},
                                        !.positive = positive, !.num_negatives = n]
                IN  IF ranks = Unset
                    THEN /\ gn' = frame
                         /\ pc' = "error"
                         /\ UNCHANGED ignored_rels_positives
                    ELSE LET sources == PPRCandidates(positive[2], domains[rel])
                             targets == PPRCandidates(positive[3], ranges[rel])
                         IN  IF sources = {} \/ targets = {}
                             THEN /\ gn' = frame
                                  /\ pc' = "error"
                                  /\ UNCHANGED ignored_rels_positives
                             ELSE \E ss \in [1..n -> sources], ts \in [1..n -> targets] :
                                     /\ gn' = [frame EXCEPT !.negatives =
                                                  @ \o [i \in 1..n |-> <<rel, ss[i], ts[i]>>]]
                                     /\ ignored_rels_positives' =
                                           IF n = 0 /\ gn.reject_rel_after_failure
                                           THEN ignored_rels_positives \cup {rel}
                                           ELSE ignored_rels_positives
                                     /\ pc' = "gn_loop"
    /\ UNCHANGED <<readVars, number_splits, config, pprVars, splitVars, gnr>>

\* The steps inside a call of generate_negatives.
NegativesStep ==
    \/ SkipPositive
    \/ NextPositive
    \/ UnknownStrategy
    \/ BeginNegative
    \/ DrawSource
    \/ EndSource
    \/ DrawTarget
    \/ EndTarget
    \/ ReturnNegatives
    \/ FinishNegatives

Next ==
    \/ ReadGraph(LineSets)
    \/ \E mnr \in MinNumRelValues, rf \in ReachValues : Prune(mnr, rf)
    \/ FindInverses
    \/ \E flag \in BOOLEAN : RemoveInverses(flag)
    \/ StoreEntityEdges

Spec == Init /\ [][Next]_vars

\* split_graph on the graph a default read() left, for each number of splits.
InitSplit ==
    /\ pc = "read_done"
    /\ \E kept \in SplitLineSets :
          \E relOrder, keyOrder \in Perms(ReaderRelations(kept)) :
             ReadDone(kept, relOrder, keyOrder)
    /\ number_splits \in 1..MaxSplits
    /\ config = DefaultConfig
    /\ matrix_movements = Unset
    /\ ranks = Unset
    /\ graphs = <<>>
    /\ fraction_test = <<1, 10>>
    /\ fraction_test_relations = <<>>
    /\ edge_list = <<>>
    /\ ignored_rels_positives = {}
    /\ gn = GnIdle
    /\ gnr = GnrIdle

NextSplit ==
    \/ \E ft \in FractionValues : SplitGraph(ft, <<>>)
    \/ \E frel \in FractionDicts : SplitGraph(<<1, 10>>, frel)

SpecSplit == InitSplit /\ [][NextSplit]_vars

\* generate_negatives, called on split 0 with any strategy, factor, bucket and
\* clean_before, on a graph that a default read() and split_graph(0.5) left.
\* reject_rel_after_failure is False, as in main: no relation is ever ignored,
\* and no positive is skipped.
NegRels == {"r1", "r2"}
MaxNegEdges == 2
NegLineSets ==
    {L \in SUBSET (Ents \X NegRels \X Ents) : Cardinality(L) <= MaxNegEdges}
FactorValues == {<<0, 1>>, <<1, 2>>, <<1, 1>>, <<3, 2>>}
StrategyValues == RandomStrategies \cup {"change_all"}

InitNeg ==
    /\ pc = "split_done"
    /\ \E kept \in NegLineSets :
          LET order == ListOf(ReaderRelations(kept))
              el == CHOOSE l \in EdgeLists(order, GroupEdges(ReaderEdges(kept))) : TRUE
          IN  /\ ReadDone(kept, order, order)
              /\ edge_list = el
              /\ fraction_test = <<1, 2>>
              /\ graphs = SplitGraphs(order, el, 1, <<1, 2>>, <<>>)
    /\ number_splits = 1
    /\ config = DefaultConfig
    /\ matrix_movements = Unset
    /\ ranks = Unset
    /\ fraction_test_relations = <<>>
    /\ ignored_rels_positives = {}
    /\ gn = GnIdle
    /\ gnr = GnrIdle

NextNeg ==
    \/ /\ pc = "split_done"
       /\ \E train_test \in {"train", "test"}, factor \in FactorValues,
             strategy \in StrategyValues, clean_before \in BOOLEAN :
             GenerateNegatives(0, train_test, factor, strategy, clean_before, FALSE)
    \/ NextPositive
    \/ UnknownStrategy
    \/ BeginNegative
    \/ DrawSource
    \/ EndSource
    \/ DrawTarget
    \/ EndTarget
    \/ ReturnNegatives
    \/ FinishNegatives

SpecNeg == InitNeg /\ [][NextNeg]_vars

\* Any number of calls of generate_negatives, with and without
\* reject_rel_after_failure, on the buckets of a graph of one relation that a
\* default read() and split_graph(0) or split_graph(0.5) left.
MaxRejectEdges == 2
RejectLineSets ==
    {L \in SUBSET (Ents \X {"r1"} \X Ents) : Cardinality(L) <= MaxRejectEdges}
RejectFactors == {<<1, 2>>, <<1, 1>>}
RejectStrategies == {"change_source", "change_target_random", "change_all"}

InitReject ==
    /\ pc = "split_done"
    /\ \E kept \in RejectLineSets :
          LET order == ListOf(ReaderRelations(kept))
              el == CHOOSE l \in EdgeLists(order, GroupEdges(ReaderEdges(kept))) : TRUE
          IN  /\ ReadDone(kept, order, order)
              /\ edge_list = el
              /\ fraction_test \in {<<0, 1>>, <<1, 2>>}
              /\ graphs = SplitGraphs(order, el, 1, fraction_test, <<>>)
    /\ number_splits = 1
    /\ config = DefaultConfig
    /\ matrix_movements = Unset
    /\ ranks = Unset
    /\ fraction_test_relations = <<>>
    /\ ignored_rels_positives = {}
    /\ gn = GnIdle
    /\ gnr = GnrIdle

NextReject ==
    \/ /\ pc \in {"split_done", "gn_done"}
       /\ \E train_test \in {"train", "test"}, factor \in RejectFactors,
             strategy \in RejectStrategies, clean_before, reject \in BOOLEAN :
             GenerateNegatives(0, train_test, factor, strategy, clean_before, reject)
    \/ NegativesStep

SpecReject == InitReject /\ [][NextReject]_vars

\* compute_PPR and generate_negatives with the PPR strategy, on a graph
\* of up to MaxPPREdges edges that a default read() and split_graph(0.5) left.
MaxPPREdges == 2
PPRLineSets ==
    {L \in SUBSET (Ents \X NegRels \X Ents) : Cardinality(L) <= MaxPPREdges}
StepValues == {1, 2, 3}
AlphaValues == {<<1, 4>>, <<1, 2>>}
PPRFactors == {<<1, 2>>, <<1, 1>>, <<3, 2>>}

InitPPR ==
    /\ pc = "split_done"
    /\ \E kept \in PPRLineSets :
          LET order == ListOf(ReaderRelations(kept))
              el == CHOOSE l \in EdgeLists(order, GroupEdges(ReaderEdges(kept))) : TRUE
          IN  /\ ReadDone(kept, order, order)
              /\ edge_list = el
              /\ fraction_test = <<1, 2>>
              /\ graphs = SplitGraphs(order, el, 1, <<1, 2>>, <<>>)
    /\ number_splits = 1
    /\ config = DefaultConfig
    /\ matrix_movements = Unset
    /\ ranks = Unset
    /\ fraction_test_relations = <<>>
    /\ ignored_rels_positives = {}
    /\ gn = GnIdle
    /\ gnr = GnrIdle

NextPPR ==
    \/ \E steps \in StepValues, alpha \in AlphaValues : ComputePPR(steps, alpha)
    \/ /\ pc = "split_done"
       /\ \E train_test \in {"train", "test"}, factor \in PPRFactors :
             GenerateNegatives(0, train_test, factor, "PPR", TRUE, FALSE)
    \/ PPRPositive
    \/ FinishNegatives

SpecPPR == InitPPR /\ [][NextPPR]_vars

\* main(), lines 713-725, on a file of up to MaxMainEdges lines of one
\* relation, for each configuration of MainConfigs (valid and invalid ones).
\* compute_PPR and the exports are left out: COMPUTE_PPR is False and the
\* exports change no state.
MaxMainEdges == 2
MainLineSets ==
    {L \in SUBSET (Ents \X {"r1"} \X Ents) : Cardinality(L) <= MaxMainEdges}
MainConfigs ==
    [min_num_rel : {1}, reach_fraction : {<<1, 1>>, <<3, 2>>},
     remove_inverses : {TRUE},
     testing_fraction : {<<1, 2>>, <<3, 2>>, <<-1, 2>>},
     number_negatives : {<<1, 1>>, <<0, 1>>, <<-1, 1>>},
     negatives_strategy : {"change_target", "change_all"},
     generate_negatives_training : BOOLEAN]

InitMain == Constructed /\ config \in MainConfigs

\* main passes reject_rel_after_failure = False: no relation is ever ignored,
\* and no positive is skipped.
NextMain ==
    \/ ReadGraph(MainLineSets)
    \/ Prune(config.min_num_rel, config.reach_fraction)
    \/ FindInverses
    \/ RemoveInverses(config.remove_inverses)
    \/ StoreEntityEdges
    \/ SplitGraph(config.testing_fraction, <<>>)
    \/ /\ pc = "split_done"
       /\ GenerateNegatives(0, "test", config.number_negatives,
                            config.negatives_strategy, TRUE, FALSE)
    \/ /\ pc = "gn_done"
       /\ config.generate_negatives_training
       /\ "negative" \notin DOMAIN graphs[0].train
       /\ GenerateNegatives(0, "train", config.number_negatives,
                            config.negatives_strategy, TRUE, FALSE)
    \/ NextPositive
    \/ UnknownStrategy
    \/ BeginNegative
    \/ DrawTarget
    \/ EndTarget
    \/ ReturnNegatives
    \/ FinishNegatives

SpecMain == InitMain /\ [][NextMain]_vars

\* ============================================================== claims
\* Sum of the edge counts of the first k relations of s.
RECURSIVE CumCount(_, _, _)
CumCount(s, g, k) == IF k = 0 THEN 0 ELSE len(g[s[k]]) + CumCount(s, g, k - 1)

\* Position of r in the sequence s.
IndexOf(s, r) == CHOOSE i \in DOMAIN s : s[i] = r

\* s ranks the relations of g with at least mnr edges by descending edge
\* count, ties in the order of keys.
IsRanking(s, g, keys, mnr) ==
    /\ Range(s) = {r \in DOMAIN g : len(g[r]) >= mnr}
    /\ \A i, j \in DOMAIN s : i < j =>
          /\ s[i] # s[j]
          /\ len(g[s[i]]) >= len(g[s[j]])
          /\ len(g[s[i]]) = len(g[s[j]]) => IndexOf(keys, s[i]) < IndexOf(keys, s[j])

\* k is the length of the shortest prefix of s that reaches rf (the relation
\* that crosses the threshold is part of it, so the prefix of a non-empty
\* ranking is not empty), or the length of s when no prefix reaches it.
IsShortestReach(s, g, total, rf, k) ==
    /\ k \in 0..Len(s)
    /\ Len(s) > 0 => k > 0
    /\ k < Len(s) => CumCount(s, g, k) * rf[2] >= rf[1] * total
    /\ \A j \in 1..(k - 1) : CumCount(s, g, j) * rf[2] < rf[1] * total

\* C3: the pruning step of read keeps exactly the shortest prefix, reaching
\* reach_fraction, of the relations with at least min_num_rel edges ranked by
\* descending edge count (ties in encounter order), the whole ranking when
\* reach_fraction is never reached; every other relation leaves the edge set,
\* the grouped index and the relation set with all its edges, and the kept
\* ones keep theirs.  With reach_fraction = 1 every relation meeting the
\* minimum is kept.
C3_PruneStep ==
    (pc = "grouped" /\ pc' = "pruned") =>
        \E s \in Perms({r \in DOMAIN grouped_edges : len(grouped_edges[r]) >= min_num_rel'}) :
            /\ IsRanking(s, grouped_edges, grouped_keys, min_num_rel')
            /\ \E k \in 0..Len(s) :
                  /\ IsShortestReach(s, grouped_edges, len(edges), reach_fraction', k)
                  /\ accepted_rels' = SubSeq(s, 1, k)
            /\ Range(relations') = Range(accepted_rels')
            /\ DOMAIN grouped_edges' = Range(accepted_rels')
            /\ \A r \in Range(accepted_rels') : grouped_edges'[r] = grouped_edges[r]
            /\ edges' = {e \in edges : e[1] \in Range(accepted_rels')}
            /\ reach_fraction' = <<1, 1>> => Range(accepted_rels') = Range(s)

C3_Pruning == [][C3_PruneStep]_vars

\* C3 witness: a pruning that kept a relation and dropped one that met the
\* minimum, the threshold having been crossed before it (domains still holds
\* the sources of the dropped relation: it has at least that many edges).
C3_Witness ==
    /\ pc = "pruned"
    /\ Len(relations) >= 1
    /\ min_num_rel >= 1
    /\ \E r \in DOMAIN domains :
          r \notin Range(relations) /\ Cardinality(domains[r]) >= min_num_rel

\* Every edge of r1 has its mirror in r2, in the edge set E.
Mirrors(E, r1, r2) ==
    \A e \in E : e[1] = r1 => <<r2, e[3], e[2]>> \in E

\* C4: find_inverses records a pair of relations if and only if they are
\* distinct remaining relations whose edges mirror each other in both
\* directions; it records no pair (r, r) and no unordered pair twice.
C4_InverseDetection ==
    pc = "found" =>
        /\ \A r1, r2 \in Range(relations) : r1 # r2 =>
              ((<<r1, r2>> \in Range(inverse_tuples) \/ <<r2, r1>> \in Range(inverse_tuples))
                  <=> (Mirrors(edges, r1, r2) /\ Mirrors(edges, r2, r1)))
        /\ \A i \in DOMAIN inverse_tuples :
              /\ inverse_tuples[i][1] # inverse_tuples[i][2]
              /\ inverse_tuples[i][1] \in Range(relations)
              /\ inverse_tuples[i][2] \in Range(relations)
        /\ \A i, j \in DOMAIN inverse_tuples : i # j =>
              /\ inverse_tuples[i] # inverse_tuples[j]
              /\ inverse_tuples[i] # <<inverse_tuples[j][2], inverse_tuples[j][1]>>

\* C4 witness: a pair was recorded while another pair of remaining relations,
\* mirrored in one direction only or not at all, was not.
C4_Witness ==
    /\ pc = "found"
    /\ Len(inverse_tuples) >= 1
    /\ \E r1, r2 \in Range(relations) :
          /\ r1 # r2
          /\ <<r1, r2>> \notin Range(inverse_tuples)
          /\ <<r2, r1>> \notin Range(inverse_tuples)

\* C5: after find_inverses, r2 is in inverses_dict[r1] if and only if
\* (r1, r2) or (r2, r1) is a detected pair; no relation is its own partner.
C5_PartnerSets ==
    pc = "found" =>
        \A r1, r2 \in Range(relations) :
            r2 \in inverses_dict[r1]
                <=> (<<r1, r2>> \in Range(inverse_tuples) \/ <<r2, r1>> \in Range(inverse_tuples))

\* C6: with remove_inverses, the removal keeps the first member of every
\* recorded pair, with all its edges, and removes the second.
C6_RemoveStep ==
    (pc = "found" /\ pc' = "inverses_done" /\ remove_inverses') =>
        \A i \in DOMAIN inverse_tuples :
            LET A == inverse_tuples[i][1]
                B == inverse_tuples[i][2]
            IN  /\ A \in Range(relations')
                /\ A \in DOMAIN grouped_edges'
                /\ {e \in edges : e[1] = A} \subseteq edges'
                /\ B \notin Range(relations')

C6_FirstKeptSecondRemoved == [][C6_RemoveStep]_vars

\* C6 as amended: the second member of every recorded pair is removed with
\* all its edges; the first member is kept, with all its edges, exactly when
\* it is not itself the second member of another recorded pair.
C6_AmendedStep ==
    (pc = "found" /\ pc' = "inverses_done" /\ remove_inverses') =>
        \A i \in DOMAIN inverse_tuples :
            LET A == inverse_tuples[i][1]
                B == inverse_tuples[i][2]
                second == \E j \in DOMAIN inverse_tuples : inverse_tuples[j][2] = A
            IN  /\ B \notin Range(relations')
                /\ B \notin DOMAIN grouped_edges'
                /\ \A e \in edges' : e[1] # B
                /\ ~second =>
                      /\ A \in Range(relations')
                      /\ A \in DOMAIN grouped_edges'
                      /\ grouped_edges'[A] = grouped_edges[A]
                      /\ {e \in edges : e[1] = A} \subseteq edges'
                /\ second => A \notin Range(relations')

C6_Amended == [][C6_AmendedStep]_vars

\* C6 witness: inverses were removed, and the first member of a recorded pair
\* was removed because it is the second member of another.
C6_Witness ==
    /\ pc = "inverses_done"
    /\ remove_inverses
    /\ \E i, j \in DOMAIN inverse_tuples :
          /\ inverse_tuples[i][1] = inverse_tuples[j][2]
          /\ inverse_tuples[i][1] \notin Range(relations)
          /\ inverse_tuples[j][1] \in Range(relations)

\* The edges of relation r in a bucket.
OfRel(bucket, r) == {e \in bucket : e[1] = r}

\* The fraction f lies in [0, 1].
InUnit(f) == 0 <= f[1] /\ f[1] <= f[2]

\* C1: after split_graph, in every split and for every remaining relation,
\* the train and test positives of the relation are disjoint, their union is
\* exactly the relation's grouped edges, and their sizes add up to its edge
\* count, for every test fraction in [0, 1].
C1_SplitPartition ==
    pc = "split_done" =>
        /\ DOMAIN graphs = 0..(number_splits - 1)
        /\ \A i \in DOMAIN graphs : \A r \in Range(relations) :
              LET train == OfRel(graphs[i].train.positive, r)
                  test == OfRel(graphs[i].test.positive, r)
              IN  InUnit(FractionOf(r, relations, fraction_test, fraction_test_relations)) =>
                    /\ train \cap test = {}
                    /\ train \cup test = {<<r, st[1], st[2]>> : st \in grouped_edges[r]}
                    /\ Cardinality(train) + Cardinality(test) = Cardinality(grouped_edges[r])

\* C1 witness: a split other than the first in which a relation has edges in
\* both buckets.
C1_Witness ==
    /\ pc = "split_done"
    /\ \E i \in DOMAIN graphs : \E r \in Range(relations) :
          /\ i >= 1
          /\ OfRel(graphs[i].train.positive, r) # {}
          /\ OfRel(graphs[i].test.positive, r) # {}

\* C2: in split i, the edge at (0-based) index j of a relation's list of N
\* edges is a test edge exactly when j lies in the circular window of
\* floor(N * f) indices that starts at offset = floor(N / number_splits * i),
\* that is when (j - offset) mod N < floor(N * f); every other edge is a
\* train edge.  With N = 4 and f = 1/2, split 0 tests the indices {0, 1}.
C2_CircularWindow ==
    pc = "split_done" =>
        \A i \in DOMAIN graphs : \A r \in Range(relations) :
            LET E == edge_list[r]
                N == Len(E)
                f == FractionOf(r, relations, fraction_test, fraction_test_relations)
                numer == N * i
                offset == CHOOSE o \in 0..N : o * number_splits <= numer
                                              /\ numer < (o + 1) * number_splits
                num_test == CHOOSE k \in 0..N : k * f[2] <= N * f[1]
                                                /\ N * f[1] < (k + 1) * f[2]
            IN  /\ \A j \in 0..(N - 1) :
                      /\ E[j + 1] \in graphs[i].test.positive
                            <=> ((j - offset) % N) < num_test
                      /\ E[j + 1] \in graphs[i].train.positive
                            <=> ~(((j - offset) % N) < num_test)
                /\ (N = 4 /\ f = <<1, 2>> /\ i = 0) =>
                      /\ OfRel(graphs[i].test.positive, r) = {E[1], E[2]}
                      /\ OfRel(graphs[i].train.positive, r) = {E[3], E[4]}

\* C2 witness: a test window that wraps around the end of the list.
C2_Witness ==
    /\ pc = "split_done"
    /\ \E i \in DOMAIN graphs : \E r \in Range(relations) :
          LET E == edge_list[r]
          IN  /\ Len(E) >= 3
              /\ E[1] \in graphs[i].test.positive
              /\ E[Len(E)] \in graphs[i].test.positive
              /\ E[2] \in graphs[i].train.positive

\* generate_negatives_random is running.
InRandom == pc \in {"gnr_for", "gnr_source", "gnr_target"}

\* C7: the number of negatives generate_negatives asks of the strategy is
\* floor(factor) or floor(factor) + 1, and is the factor when that is an
\* integer, for every factor >= 0 and every outcome of the draws.
C7_NumNegatives ==
    InRandom =>
        LET f == gn.negatives_factor
            floor == CHOOSE k \in 0..f[1] : k * f[2] <= f[1] /\ f[1] < (k + 1) * f[2]
        IN  /\ gnr.number_negatives = gn.num_negatives
            /\ gnr.number_negatives \in {floor, floor + 1}
            /\ floor * f[2] = f[1] => gnr.number_negatives = floor

\* C7 witness: a fractional factor above 1 gave floor(factor) + 1 negatives.
C7_Witness ==
    /\ InRandom
    /\ gn.negatives_factor = <<3, 2>>
    /\ gnr.number_negatives = 2

\* C8 (state part): every negative generate_negatives_random holds for the
\* positive (r, s, t) has relation r, differs from the positive in each
\* endpoint selected for corruption and equals it in each one not selected.
C8_Negatives ==
    InRandom =>
        \A k \in DOMAIN gnr.negatives :
            LET n == gnr.negatives[k]
            IN  /\ n[1] = gn.positive[1]
                /\ IF gnr.change_source
                   THEN n[2] # gn.positive[2] /\ n[2] # None
                   ELSE n[2] = gn.positive[2]
                /\ IF gnr.change_target
                   THEN n[3] # gn.positive[3] /\ n[3] # None
                   ELSE n[3] = gn.positive[3]

\* C8 (step part): the iteration for one requested negative emits nothing
\* when no different value was found for a required endpoint, and one
\* negative otherwise.
C8_IterationEnds ==
    (pc \in {"gnr_source", "gnr_target"} /\ pc' = "gnr_for") =>
        IF \/ gnr'.change_source /\ gnr'.source = None
           \/ gnr'.change_target /\ gnr'.target = None
        THEN gnr'.negatives = gnr.negatives
        ELSE gnr'.negatives = Append(gnr.negatives,
                                     <<gn.positive[1], gnr'.source, gnr'.target>>)

\* C8: the negatives of the six source/target-changing strategies.
C8_RandomNegatives == [][C8_Negatives' /\ C8_IterationEnds]_vars

\* C8 witness: with both endpoints to change, one negative was emitted and
\* the next iteration ended without a target found, emitting nothing.
C8_Witness ==
    /\ pc = "gnr_for"
    /\ gnr.change_source /\ gnr.change_target
    /\ gnr.number_negatives = 2 /\ gnr.todo = 0
    /\ Len(gnr.negatives) = 1
    /\ gnr.source # None /\ gnr.target = None

\* C9: no search for an endpoint makes more than 20 candidate draws
\* (attempts counts the draws of the current search).
C9_AtMost20Draws ==
    pc \in {"gnr_source", "gnr_target"} => gnr.attempts <= 20

\* The configuration is valid: the fractions in [0, 1], a positive negatives
\* factor, a strategy that generate_negatives recognizes.
ValidConfig(c) ==
    /\ 0 <= c.testing_fraction[1] /\ c.testing_fraction[1] <= c.testing_fraction[2]
    /\ 0 <= c.reach_fraction[1] /\ c.reach_fraction[1] <= c.reach_fraction[2]
    /\ c.number_negatives[1] > 0
    /\ c.negatives_strategy \in RandomStrategies \cup {"PPR"}

\* C10: with an invalid configuration main stops before any graph
\* processing: nothing is read, pruned, split or generated.
C10_FailFast ==
    ~ValidConfig(config) =>
        /\ pc = "init"
        /\ entities = {} /\ edges = {} /\ relations = <<>>
        /\ graphs = <<>>

\* C11 (one step): a draw of the search for an endpoint of the first
\* requested negative of a positive uses the initial pool when it is one of
\* the draws 1 to 10, and the widened pool when it is the 11th or a later one.
C11_DrawStep ==
    /\ (pc = "gnr_source" /\ pc' = "gnr_source"
            /\ gnr.todo = gnr.number_negatives - 1) =>
          gnr'.candidates_source =
              IF gnr'.attempts > 10
              THEN WidenedSource(gnr.keep_dom_ran, gn.positive[1])
              ELSE CandidatesSource(gnr.keep_dom_ran, gn.positive[1])
    /\ (pc = "gnr_target" /\ pc' = "gnr_target"
            /\ gnr.todo = gnr.number_negatives - 1) =>
          gnr'.candidates_target =
              IF gnr'.attempts > 10
              THEN WidenedTarget(gnr.keep_dom_ran, gn.positive[1])
              ELSE CandidatesTarget(gnr.keep_dom_ran, gn.positive[1])

\* C11: the pool is widened after exactly 10 failed draws: the draws 1 to
\* 10 use the initial pool, the 11th and all later draws the widened pool.
C11_WidenAfter10 == [][C11_DrawStep]_vars

\* C12: under the whole-universe strategies the source and the target of
\* every negative are entities of the graph, never relation identifiers.
C12_EntitiesOnly ==
    (InRandom /\ ~gnr.keep_dom_ran) =>
        \A k \in DOMAIN gnr.negatives :
            /\ gnr.negatives[k][2] \in entities
            /\ gnr.negatives[k][3] \in entities

\* C17: the search for an endpoint starts every requested negative in the
\* initial pool with the attempt counter at 0, whether or not the search for
\* an earlier negative of the same positive widened the pool.
C17_PoolReset ==
    /\ (pc = "gnr_source" /\ gnr.attempts = 0) =>
          gnr.candidates_source = CandidatesSource(gnr.keep_dom_ran, gn.positive[1])
    /\ (pc = "gnr_target" /\ gnr.attempts = 0) =>
          gnr.candidates_target = CandidatesTarget(gnr.keep_dom_ran, gn.positive[1])

\* C13 (one step): a relation enters the ignored set only when rejection is
\* enabled and at least one negative was requested for one of its positives
\* and none was returned.
C13_IgnoreStep ==
    ignored_rels_positives' # ignored_rels_positives =>
        /\ gn.reject_rel_after_failure
        /\ gn.num_negatives >= 1
        /\ Len(gnr.negatives) = 0

\* C13: a positive for which zero negatives were requested never causes its
\* relation to be ignored; without reject_rel_after_failure the ignored set
\* never changes.
C13_OnlyRequired == [][C13_IgnoreStep]_vars

\* C16 (one step): when a call with clean_before = False ends on a bucket
\* that already held negatives, the bucket holds the old negatives followed
\* by the newly generated ones.
C16_FinishStep ==
    (/\ pc = "gn_loop" /\ pc' = "gn_done"
     /\ ~gn.clean_before
     /\ "negative" \in DOMAIN graphs[gn.split][gn.train_test]) =>
        graphs'[gn.split][gn.train_test].negative =
            graphs[gn.split][gn.train_test].negative \o gn.negatives

\* C16: clean_before = False keeps the negatives the bucket already holds
\* and adds the new ones to them.
C16_KeepsNegatives == [][C16_FinishStep]_vars

\* C18 (one step): the ignored set only grows, generate_negatives_random is
\* never running for a positive of an ignored relation, and no negative of
\* an ignored relation is added to the negatives of the call.
C18_Step ==
    /\ ignored_rels_positives \subseteq ignored_rels_positives'
    /\ InRandom' => gn'.positive[1] \notin ignored_rels_positives'
    /\ \A k \in DOMAIN gn'.negatives :
          k > Len(gn.negatives) => gn'.negatives[k][1] \notin ignored_rels_positives

\* C18: a relation once ignored is never removed from the ignored set, and no
\* negative is generated for its positives in the rest of the call or in
\* any later call, whatever the bucket and the strategy.
C18_IgnoredForGood == [][C18_Step]_vars

\* C18 witness: in a later call, made without rejection, the only positive of
\* the bucket was skipped because its relation had been ignored before.
C18_Witness ==
    /\ pc = "gn_loop"
    /\ ~gn.reject_rel_after_failure
    /\ gn.positive # <<>> /\ gn.pending = {}
    /\ gn.positive[1] \in ignored_rels_positives
    /\ gn.negatives = <<>>

\* The transition table the documentation of compute_PPR describes.
TransitionTable ==
    [s \in entities |-> [t \in entities |->
        IF OutEdges(s) = {} THEN <<0, 1>>
        ELSE Norm(<<EntityCount(s, t), len(OutEdges(s))>>)]]

\* C14: after compute_PPR, M[e, t] is the number of outgoing edges e->t over
\* the number of outgoing edges of e when e has some, and 0 otherwise.
C14_TransitionTable ==
    matrix_movements # Unset => matrix_movements = TransitionTable

\* C15 (one step): the negatives the PPR strategy returns for a positive
\* (r, s, t) have a source other than s and a target other than t.
C15_PPRStep ==
    (/\ pc = "gn_loop" /\ pc' = "gn_loop"
     /\ gn.strategy = "PPR"
     /\ matrix_movements = TransitionTable) =>
        \A k \in DOMAIN gn'.negatives :
            k > Len(gn.negatives) =>
                /\ gn'.negatives[k][2] # gn'.positive[2]
                /\ gn'.negatives[k][3] # gn'.positive[3]

\* C15: no negative of the PPR strategy keeps the source or the target of
\* its positive, whatever rank table compute_PPR produced.
C15_PPRNegatives == [][C15_PPRStep]_vars

====
